---------------------------- MODULE Spec2Model ----------------------------
(***************************************************************************)
(* A model of jurigged's registry and import sniffer                       *)
(* (src/jurigged/register.py).                                             *)
(*                                                                         *)
(* The Registry keeps two tables keyed by file name: precache, a snapshot  *)
(* (module_name, file_contents, mtime) taken by prepare, and cache, the    *)
(* CodeFile built lazily by get.  The ImportSniffer sits at the front of   *)
(* sys.meta_path and reports every source module that is about to be       *)
(* imported.                                                               *)
(*                                                                         *)
(* The host process is the environment: it loads and unloads modules,      *)
(* decides what a file read yields at the moment of the read, and decides  *)
(* how the sniffer's own importlib.util.find_spec call ends.  The model    *)
(* follows one Registry and one ImportSniffer object at a time.            *)
(***************************************************************************)
EXTENDS Integers, Sequences, FiniteSets, TLC

(***************************************************************************)
(* Bounds of the model.                                                    *)
(***************************************************************************)
\* A file read yields one of the versions 1..MaxVersion of the file.
MaxVersion == 2
\* At most MaxListeners observers register on precache_activity.
MaxListeners == 1
\* Python's recursion limit for nested find_module frames.
MaxDepth == 2
MaxEvents == 2

(***************************************************************************)
(* The host environment: files, modules, functions.                        *)
(***************************************************************************)
None == "None"

Paths == {"a.py", "b.py"}

\* sys.modules keys the host may hold, with each module object's
\* __name__ and __file__ (getattr default None).  D (a built-in, no
\* __file__) and E (no __name__) are loaded at start-up and stay loaded;
\* A and B are imported, unloaded and imported again by the host.
ModuleKeys == {"A", "B", "D", "E"}

Resident == <<"D", "E">>

Reloadable == {"A", "B"}

ModuleName(k) == IF k = "E" THEN None ELSE k

ModuleFile(k) ==
    CASE k = "A" -> "a.py"
      [] k = "B" -> "b.py"
      [] k = "E" -> "b.py"
      [] OTHER   -> None

\* Module names handed to prepare.
ModuleNames == {"A", "B"}

\* What a read of a file yields when it is made: 0 is a failed read
\* (open, read or getmtime raises), v > 0 is version v of the file.
Reads == 0..MaxVersion

FileText(v) == v

FileMtime(v) == 100 + v

Lines == 1..2

\* The objects handed to find_function: functions (FunctionType) with
\* __module__, __code__.co_filename, __code__.co_firstlineno, and one
\* object that is no function.
Objects == {"fA", "fB", "fX", "notfn"}

IsFunction(x) == x # "notfn"

FnModule(x) == IF x = "fA" THEN "A" ELSE "B"

FnFile(x) == IF x = "fB" THEN "b.py" ELSE "a.py"

FnLine(x) == IF x = "fB" THEN 2 ELSE 1

\* The orders in which the host may have imported A and B.
LoadOrders == {<<>>, <<"A">>, <<"B">>, <<"A", "B">>, <<"B", "A">>}

\* The filters handed to auto_register, as the set of paths they accept.
Filters == {{"a.py"}, {"a.py", "b.py"}}

VARIABLES
    registry,     \* the Registry object: precache, cache, the two channels
    sys_modules,  \* the keys of sys.modules, in insertion order
    meta_path,    \* sys.meta_path
    sniffer,      \* the ImportSniffer object auto_register made
    stack,        \* the find_module frames waiting on find_spec
    handed,       \* per path, the id of the first CodeFile handed out
    stale,        \* the paths with a snapshot whose last lookup gave None
    emitted,      \* the events the CodeFiles have emitted, in order
    ret           \* what the last call did and returned

vars ==
    <<registry, sys_modules, meta_path, sniffer, stack, handed, stale,
      emitted, ret>>

(***************************************************************************)
(* EventSource (jurigged/utils.py): the list of listeners and the history. *)
(* A listener is modelled by the sequence of events it has received.       *)
(***************************************************************************)
EventSource(save_history) ==
    [save_history |-> save_history, history |-> <<>>, listeners |-> <<>>]

register(ch) ==
    [ch EXCEPT !.listeners = Append(@, ch.history)]

emit(ch, ev) ==
    [ch EXCEPT !.listeners = [i \in DOMAIN @ |-> Append(@[i], ev)],
               !.history = IF ch.save_history THEN Append(@, ev) ELSE @]

(***************************************************************************)
(* CodeFile (jurigged/codefile.py), through the contract the Registry      *)
(* uses: the constructor, discover, the activity channel and defnmap.      *)
(***************************************************************************)
NoCodeFile == [id |-> 0]

NoDefn == [lineno |-> 0]

CodeFile(id, filename, source) ==
    [id |-> id, filename |-> filename, source |-> source,
     module |-> None, activity |-> <<>>]

discover(cf, module) == [cf EXCEPT !.module = module]

\* The lines of a source text that start a definition.
DefLines(source) == 1..source

defnmap_get(cf, lineno) ==
    IF lineno \in DefLines(cf.source)
    THEN [lineno |-> lineno, filename |-> cf.filename, source |-> cf.source]
    ELSE NoDefn

(***************************************************************************)
(* Registry                                                                *)
(***************************************************************************)
\* Variant of Registry_init: precache_activity keeps no history.
Registry_init_nohistory ==
    [precache |-> <<>>,
     cache |-> <<>>,
     precache_activity |-> EventSource(FALSE),
     activity |-> EventSource(FALSE),
     nbuilt |-> 0]

Registry_init ==
    [precache |-> <<>>,
     cache |-> <<>>,
     precache_activity |-> EventSource(TRUE),
     activity |-> EventSource(FALSE),
     nbuilt |-> 0]

\* Variant of prepare_unseen: the snapshot is taken again on every call.
prepare_unseen_always(reg, filename) == TRUE

\* prepare's guard: the file was never seen.
prepare_unseen(reg, filename) ==
    filename \notin DOMAIN reg.precache /\ filename \notin DOMAIN reg.cache

\* What the read made by prepare(_, filename) may yield; a file that has
\* been seen is not read.
FileReads(reg, filename) ==
    IF prepare_unseen(reg, filename) THEN Reads ELSE {0}

\* The tuple prepare stores.
snapshot(module_name, rd) == <<module_name, FileText(rd), FileMtime(rd)>>

\* Variant of prepare: a failed read is remembered as an empty snapshot
\* before the error goes on to the caller.
prepare_negative(reg, module_name, filename, rd) ==
    IF prepare_unseen(reg, filename)
    THEN IF rd = 0
         THEN [reg |-> [reg EXCEPT
                   !.precache = (filename :> snapshot(module_name, rd)) @@ @],
               raised |-> TRUE]
         ELSE [reg |-> [reg EXCEPT
                   !.precache = (filename :> snapshot(module_name, rd)) @@ @,
                   !.precache_activity = emit(@, <<module_name, filename>>)],
               raised |-> FALSE]
    ELSE [reg |-> reg, raised |-> FALSE]

\* prepare(module_name, filename), the read yielding rd.
prepare(reg, module_name, filename, rd) ==
    IF prepare_unseen(reg, filename)
    THEN IF rd = 0
         THEN [reg |-> reg, raised |-> TRUE]
         ELSE [reg |-> [reg EXCEPT
                   !.precache = (filename :> snapshot(module_name, rd)) @@ @,
                   !.precache_activity = emit(@, <<module_name, filename>>)],
               raised |-> FALSE]
    ELSE [reg |-> reg, raised |-> FALSE]

\* Variant of get_cached: the cache is never consulted.
get_cached_never(reg, filename) == FALSE

\* get's first test.
get_cached(reg, filename) == filename \in DOMAIN reg.cache

\* get's test that the module of the snapshot is loaded.
module_loaded(module_name, mods) ==
    \E i \in DOMAIN mods : mods[i] = module_name

\* Variant of module_gone: the snapshot's module is taken to be loaded.
module_gone_never(reg, filename, mods) == FALSE

\* get's second test: the module of the snapshot is not in sys.modules.
module_gone(reg, filename, mods) ==
    ~module_loaded(reg.precache[filename][1], mods)

\* Variant of build: self.activity.emit is registered twice.
build_twice(reg, filename, mods) ==
    LET module_name == reg.precache[filename][1]
        cached_source == reg.precache[filename][2]
        cf0 == CodeFile(reg.nbuilt + 1, filename, cached_source)
        cf1 == discover(cf0, module_name)
    IN  [cf1 EXCEPT !.activity = <<"log", "activity.emit", "activity.emit">>]

\* The CodeFile get builds from the snapshot.
build(reg, filename, mods) ==
    LET module_name == reg.precache[filename][1]
        cached_source == reg.precache[filename][2]
        cf0 == CodeFile(reg.nbuilt + 1, filename, cached_source)
        cf1 == discover(cf0, module_name)
    IN  [cf1 EXCEPT !.activity = <<"log", "activity.emit">>]

\* Variant of promote: the snapshot is dropped when the CodeFile is stored.
promote_evicting(reg, filename, cf) ==
    [reg EXCEPT !.cache = (filename :> cf) @@ @, !.nbuilt = @ + 1,
                !.precache = [q \in DOMAIN @ \ {filename} |-> @[q]]]

\* The table get leaves behind after a build.
promote(reg, filename, cf) ==
    [reg EXCEPT !.cache = (filename :> cf) @@ @, !.nbuilt = @ + 1]

\* Variant of get: the None given for a module that is not loaded is cached.
get_sticky(reg, filename, mods) ==
    IF get_cached(reg, filename)
    THEN [reg |-> reg, val |-> reg.cache[filename]]
    ELSE IF filename \in DOMAIN reg.precache
         THEN IF module_gone(reg, filename, mods)
              THEN [reg |-> [reg EXCEPT !.cache = (filename :> NoCodeFile) @@ @],
                    val |-> NoCodeFile]
              ELSE LET cf == build(reg, filename, mods)
                   IN  [reg |-> promote(reg, filename, cf), val |-> cf]
         ELSE [reg |-> reg, val |-> NoCodeFile]

\* Registry.log with no logger set.
log(reg, ev) == reg

\* cf.activity.emit(ev): the listeners get registered on the CodeFile's
\* channel are called in the order of their registration, from the i-th on.
RECURSIVE cf_emit(_, _, _, _)
cf_emit(reg, listeners, ev, i) ==
    IF i > Len(listeners)
    THEN reg
    ELSE cf_emit(IF listeners[i] = "activity.emit"
                 THEN [reg EXCEPT !.activity = emit(@, ev)]
                 ELSE log(reg, ev),
                 listeners, ev, i + 1)

\* get(filename) with sys.modules holding the keys mods.
get(reg, filename, mods) ==
    IF get_cached(reg, filename)
    THEN [reg |-> reg, val |-> reg.cache[filename]]
    ELSE IF filename \in DOMAIN reg.precache
         THEN IF module_gone(reg, filename, mods)
              THEN [reg |-> reg, val |-> NoCodeFile]
              ELSE LET cf == build(reg, filename, mods)
                   IN  [reg |-> promote(reg, filename, cf), val |-> cf]
         ELSE [reg |-> reg, val |-> NoCodeFile]

\* Variant of find: the line is looked up one too low.
find_offbyone(reg, filename, lineno, mods) ==
    LET g == get(reg, filename, mods)
    IN  IF g.val = NoCodeFile
        THEN [reg |-> g.reg, val |-> <<NoCodeFile, NoDefn>>, raised |-> FALSE]
        ELSE [reg |-> g.reg, val |-> <<g.val, defnmap_get(g.val, lineno - 1)>>,
              raised |-> FALSE]

\* Variant of find: an unknown file is an error instead of (None, None).
find_raising(reg, filename, lineno, mods) ==
    LET g == get(reg, filename, mods)
    IN  IF g.val = NoCodeFile
        THEN [reg |-> g.reg, val |-> <<NoCodeFile, NoDefn>>, raised |-> TRUE]
        ELSE [reg |-> g.reg, val |-> <<g.val, defnmap_get(g.val, lineno)>>,
              raised |-> FALSE]

\* find(filename, lineno)
find(reg, filename, lineno, mods) ==
    LET g == get(reg, filename, mods)
    IN  IF g.val = NoCodeFile
        THEN [reg |-> g.reg, val |-> <<NoCodeFile, NoDefn>>, raised |-> FALSE]
        ELSE [reg |-> g.reg, val |-> <<g.val, defnmap_get(g.val, lineno)>>,
              raised |-> FALSE]

\* Variant of find_function: no type test, so fn.__module__ is an
\* AttributeError for an object that is no function.
find_function_untyped(reg, fn, rd, mods) ==
    IF ~IsFunction(fn)
    THEN [reg |-> reg, val |-> <<NoCodeFile, NoDefn>>, raised |-> TRUE]
    ELSE LET p == prepare(reg, FnModule(fn), FnFile(fn), rd)
         IN  IF p.raised
             THEN [reg |-> p.reg, val |-> <<NoCodeFile, NoDefn>>,
                   raised |-> TRUE]
             ELSE find(p.reg, FnFile(fn), FnLine(fn), mods)

\* Variant of find_function: the file is looked up without being prepared.
find_function_noprepare(reg, fn, rd, mods) ==
    IF ~IsFunction(fn)
    THEN [reg |-> reg, val |-> <<NoCodeFile, NoDefn>>, raised |-> FALSE]
    ELSE find(reg, FnFile(fn), FnLine(fn), mods)

\* find_function(fn), the read of prepare yielding rd.
find_function(reg, fn, rd, mods) ==
    IF ~IsFunction(fn)
    THEN [reg |-> reg, val |-> <<NoCodeFile, NoDefn>>, raised |-> FALSE]
    ELSE LET p == prepare(reg, FnModule(fn), FnFile(fn), rd)
         IN  IF p.raised
             THEN [reg |-> p.reg, val |-> <<NoCodeFile, NoDefn>>,
                   raised |-> TRUE]
             ELSE find(p.reg, FnFile(fn), FnLine(fn), mods)

\* Variant of prep_passes: the filter is not consulted.
prep_passes_nofilter(filter, module_name, filename) ==
    filename # None /\ module_name # None

\* prep's test, the closure auto_register hands to the sniffer.
prep_passes(filter, module_name, filename) ==
    filename # None /\ module_name # None /\ filename \in filter

\* prep(module_name, filename); calls lists the prepare calls it made.
prep(reg, filter, module_name, filename, rd) ==
    IF prep_passes(filter, module_name, filename)
    THEN LET p == prepare(reg, module_name, filename, rd)
         IN  [reg |-> p.reg, raised |-> p.raised,
              calls |-> << <<module_name, filename>> >>]
    ELSE [reg |-> reg, raised |-> FALSE, calls |-> <<>>]

\* The read of filename made during one scan; None is never read.
ReadOf(reads, filename) == IF filename = None THEN 0 ELSE reads[filename]

\* auto_register's loop over sys.modules.items(), from position i on.
RECURSIVE scan(_, _, _, _, _, _)
scan(reg, filter, mods, reads, i, calls) ==
    IF i > Len(mods)
    THEN [reg |-> reg, raised |-> FALSE, calls |-> calls]
    ELSE LET filename == ModuleFile(mods[i])
             module_name == ModuleName(mods[i])
             r == prep(reg, filter, module_name, filename,
                       ReadOf(reads, filename))
         IN  IF r.raised
             THEN [reg |-> r.reg, raised |-> TRUE, calls |-> calls \o r.calls]
             ELSE scan(r.reg, filter, mods, reads, i + 1, calls \o r.calls)

(***************************************************************************)
(* ImportSniffer                                                           *)
(***************************************************************************)
NoSniffer == [made |-> FALSE, working |-> FALSE, filter |-> {}]

\* ImportSniffer(prep), prep closing over filter.
ImportSniffer(filter) == [made |-> TRUE, working |-> FALSE, filter |-> filter]

\* sys.meta_path as the interpreter starts with it.
HostFinders == <<"BuiltinImporter", "FrozenImporter", "PathFinder">>

install(chain) == <<"sniffer">> \o chain

Installed(chain) == \E i \in DOMAIN chain : chain[i] = "sniffer"

\* Variant of uninstall: the last finder of the list goes.
uninstall_last(chain) == SubSeq(chain, 1, Len(chain) - 1)

\* list.remove: the first occurrence goes.
uninstall(chain) ==
    LET i == CHOOSE j \in DOMAIN chain :
                 chain[j] = "sniffer" /\ \A l \in 1..(j - 1) : chain[l] # "sniffer"
    IN  SubSeq(chain, 1, i - 1) \o SubSeq(chain, i + 1, Len(chain))

\* The names the host tries to import, and the spec importlib.util.find_spec
\* finds for each: A and B are source files, D is a built-in, E has a
\* SourceFileLoader but no origin, M does not exist.
ImportNames == {"A", "B", "D", "E", "M"}

NoSpec == [found |-> FALSE]

SpecOf(name) ==
    CASE name = "A" -> [found |-> TRUE, loader |-> "SourceFileLoader",
                        name |-> "A", origin |-> "a.py"]
      [] name = "B" -> [found |-> TRUE, loader |-> "SourceFileLoader",
                        name |-> "B", origin |-> "b.py"]
      [] name = "D" -> [found |-> TRUE, loader |-> "BuiltinImporter",
                        name |-> "D", origin |-> "built-in"]
      [] name = "E" -> [found |-> TRUE, loader |-> "SourceFileLoader",
                        name |-> "E", origin |-> None]
      [] OTHER      -> NoSpec

\* find_module's first test.
find_module_enters(sn) == ~sn.working

\* Variant of reportable: the loader of the spec is not looked at.
reportable_anyloader(mspec) ==
    /\ mspec # NoSpec
    /\ mspec.name # None
    /\ mspec.origin # None

\* find_module's test on the spec it found.
reportable(mspec) ==
    /\ mspec # NoSpec
    /\ mspec.loader = "SourceFileLoader"
    /\ mspec.name # None
    /\ mspec.origin # None

\* What find_module returns: always None.
NoOpinion == None

\* A find_module call that found the flag set.
declined(sn, reg) ==
    [sn |-> sn, reg |-> reg, raised |-> FALSE,
     val |-> [result |-> NoOpinion, declined |-> TRUE, reported |-> <<>>,
              prepared |-> <<>>, report_raised |-> FALSE]]

\* Variant of after_report: no try/except around self.report.
after_report_nocatch(sn, r, mspec) ==
    [sn |-> IF r.raised THEN sn ELSE [sn EXCEPT !.working = FALSE],
     reg |-> r.reg, raised |-> r.raised,
     val |-> [result |-> IF r.raised THEN "raise" ELSE NoOpinion,
              declined |-> FALSE,
              reported |-> << <<mspec.name, mspec.origin>> >>,
              prepared |-> r.calls, report_raised |-> r.raised]]

\* find_module after self.report returned or raised (r is prep's outcome).
after_report(sn, r, mspec) ==
    [sn |-> [sn EXCEPT !.working = FALSE], reg |-> r.reg, raised |-> FALSE,
     val |-> [result |-> NoOpinion, declined |-> FALSE,
              reported |-> << <<mspec.name, mspec.origin>> >>,
              prepared |-> r.calls, report_raised |-> r.raised]]

\* find_module from the return of importlib.util.find_spec on: raises says
\* that find_spec raised, rd is what a read of the origin yields.
find_module_resume(sn, reg, name, raises, rd) ==
    IF raises
    THEN [sn |-> sn, reg |-> reg, raised |-> TRUE,
          val |-> [result |-> "raise", declined |-> FALSE, reported |-> <<>>,
                   prepared |-> <<>>, report_raised |-> FALSE]]
    ELSE LET mspec == SpecOf(name)
         IN  IF reportable(mspec)
             THEN after_report(sn, prep(reg, sn.filter, mspec.name,
                                        mspec.origin, rd), mspec)
             ELSE [sn |-> [sn EXCEPT !.working = FALSE], reg |-> reg,
                   raised |-> FALSE,
                   val |-> [result |-> NoOpinion, declined |-> FALSE,
                            reported |-> <<>>, prepared |-> <<>>,
                            report_raised |-> FALSE]]

(***************************************************************************)
(* What a call leaves in ret, and the bookkeeping of handed.               *)
(***************************************************************************)
Ret(op, args, raised, val) ==
    [op |-> op, args |-> args, raised |-> raised, val |-> val]

Handed(filename, cf) ==
    IF cf # NoCodeFile /\ handed[filename] = 0
    THEN [handed EXCEPT ![filename] = cf.id]
    ELSE handed

Stale(filename, cf, reg) ==
    IF cf = NoCodeFile /\ filename \in DOMAIN reg.precache
    THEN stale \cup {filename}
    ELSE stale \ {filename}

EnvFrame == UNCHANGED <<meta_path, sniffer, stack, emitted>>

Idle == stack = <<>>

Init ==
    /\ registry = Registry_init
    /\ sys_modules \in {Resident \o s : s \in LoadOrders}
    /\ meta_path = HostFinders
    /\ sniffer = NoSniffer
    /\ stack = <<>>
    /\ handed = [p \in Paths |-> 0]
    /\ stale = {}
    /\ emitted = <<>>
    /\ ret = Ret("init", <<>>, FALSE, <<>>)

(***************************************************************************)
(* Calls on the Registry.                                                  *)
(***************************************************************************)
Prepare(module_name, filename, rd) ==
    /\ Idle
    /\ LET p == prepare(registry, module_name, filename, rd)
       IN  /\ registry' = p.reg
           /\ ret' = Ret("prepare", <<module_name, filename, rd>>, p.raised, <<>>)
    /\ UNCHANGED <<sys_modules, handed, stale>>
    /\ EnvFrame

Get(filename) ==
    /\ Idle
    /\ LET g == get(registry, filename, sys_modules)
       IN  /\ registry' = g.reg
           /\ handed' = Handed(filename, g.val)
           /\ stale' = Stale(filename, g.val, g.reg)
           /\ ret' = Ret("get", <<filename, filename \in stale>>, FALSE, g.val)
    /\ UNCHANGED sys_modules
    /\ EnvFrame

Find(filename, lineno) ==
    /\ Idle
    /\ LET f == find(registry, filename, lineno, sys_modules)
       IN  /\ registry' = f.reg
           /\ handed' = Handed(filename, f.val[1])
           /\ stale' = Stale(filename, f.val[1], f.reg)
           /\ ret' = Ret("find", <<filename, lineno>>, f.raised, f.val)
    /\ UNCHANGED sys_modules
    /\ EnvFrame

FindFunction(fn, rd) ==
    /\ Idle
    /\ LET f == find_function(registry, fn, rd, sys_modules)
       IN  /\ registry' = f.reg
           /\ handed' = Handed(FnFile(fn), f.val[1])
           /\ stale' = IF IsFunction(fn) /\ ~f.raised
                       THEN Stale(FnFile(fn), f.val[1], f.reg)
                       ELSE stale
           /\ ret' = Ret("find_function", <<fn, rd>>, f.raised, f.val)
    /\ UNCHANGED sys_modules
    /\ EnvFrame

\* An observer registers on registry.precache_activity.
RegisterListener ==
    /\ Idle
    /\ Len(registry.precache_activity.listeners) < MaxListeners
    /\ registry' = [registry EXCEPT !.precache_activity = register(@)]
    /\ ret' = Ret("register", <<>>, FALSE, <<>>)
    /\ UNCHANGED <<sys_modules, handed, stale>>
    /\ EnvFrame

\* An observer registers on registry.activity.
RegisterActivityListener ==
    /\ Idle
    /\ Len(registry.activity.listeners) < MaxListeners
    /\ registry' = [registry EXCEPT !.activity = register(@)]
    /\ ret' = Ret("register_activity", <<>>, FALSE, <<>>)
    /\ UNCHANGED <<sys_modules, handed, stale>>
    /\ EnvFrame

\* The CodeFile cached for filename emits an event on its activity channel.
CodeFileEmit(filename) ==
    /\ Idle
    /\ filename \in DOMAIN registry.cache
    /\ Len(emitted) < MaxEvents
    /\ LET ev == <<filename, Len(emitted) + 1>>
       IN  /\ registry' = cf_emit(registry, registry.cache[filename].activity,
                                  ev, 1)
           /\ emitted' = Append(emitted, ev)
           /\ ret' = Ret("emit", <<filename>>, FALSE, ev)
    /\ UNCHANGED <<sys_modules, meta_path, sniffer, stack, handed, stale>>

(***************************************************************************)
(* The host loads and unloads modules.                                     *)
(***************************************************************************)
LoadModule(k) ==
    /\ Idle
    /\ ~module_loaded(k, sys_modules)
    /\ sys_modules' = Append(sys_modules, k)
    /\ ret' = Ret("load", <<k>>, FALSE, <<>>)
    /\ UNCHANGED <<registry, handed, stale>>
    /\ EnvFrame

UnloadModule(k) ==
    /\ Idle
    /\ module_loaded(k, sys_modules)
    /\ sys_modules' = SelectSeq(sys_modules, LAMBDA x : x # k)
    /\ ret' = Ret("unload", <<k>>, FALSE, <<>>)
    /\ UNCHANGED <<registry, handed, stale>>
    /\ EnvFrame

(***************************************************************************)
(* auto_register and the sniffer.                                          *)
(***************************************************************************)
AutoRegister(filter, reads) ==
    /\ Idle
    /\ ~Installed(meta_path)
    /\ LET r == scan(registry, filter, sys_modules, reads, 1, <<>>)
       IN  /\ registry' = r.reg
           /\ ret' = Ret("auto_register", <<filter>>, r.raised,
                         [prepared |-> r.calls, mods |-> sys_modules])
           /\ IF r.raised
              THEN UNCHANGED <<sniffer, meta_path>>
              ELSE /\ sniffer' = ImportSniffer(filter)
                   /\ meta_path' = install(meta_path)
    /\ UNCHANGED <<sys_modules, stack, handed, stale, emitted>>

Install ==
    /\ Idle
    /\ sniffer.made
    /\ ~Installed(meta_path)
    /\ meta_path' = install(meta_path)
    /\ ret' = Ret("install", <<>>, FALSE, <<>>)
    /\ UNCHANGED <<registry, sys_modules, sniffer, stack, handed, stale,
                   emitted>>

\* list.remove raises ValueError when the sniffer is not in the list.
Uninstall ==
    /\ Idle
    /\ sniffer.made
    /\ IF Installed(meta_path)
       THEN /\ meta_path' = uninstall(meta_path)
            /\ ret' = Ret("uninstall", <<>>, FALSE, <<>>)
       ELSE /\ UNCHANGED meta_path
            /\ ret' = Ret("uninstall", <<>>, TRUE, <<>>)
    /\ UNCHANGED <<registry, sys_modules, sniffer, stack, handed, stale,
                   emitted>>

\* The import system asks the sniffer about name: with no frame waiting
\* this is the host's import of name, with a frame waiting it is an
\* attempt made inside the sniffer's own find_spec call.
FindModule(name) ==
    /\ Installed(meta_path)
    /\ IF find_module_enters(sniffer)
       THEN /\ Len(stack) < MaxDepth
            /\ sniffer' = [sniffer EXCEPT !.working = TRUE]
            /\ stack' = Append(stack, name)
            /\ ret' = Ret("find_spec", <<name>>, FALSE, <<>>)
            /\ UNCHANGED registry
       ELSE LET d == declined(sniffer, registry)
            IN  /\ sniffer' = d.sn
                /\ registry' = d.reg
                /\ ret' = Ret("find_module", <<name>>, d.raised, d.val)
                /\ UNCHANGED stack
    /\ UNCHANGED <<sys_modules, meta_path, handed, stale, emitted>>

\* importlib.util.find_spec comes back to the innermost waiting frame.
FindModuleResume(raises, rd) ==
    /\ stack # <<>>
    /\ LET name == stack[Len(stack)]
           r == find_module_resume(sniffer, registry, name, raises, rd)
       IN  /\ sniffer' = r.sn
           /\ registry' = r.reg
           /\ ret' = Ret("find_module", <<name>>, r.raised, r.val)
    /\ stack' = SubSeq(stack, 1, Len(stack) - 1)
    /\ UNCHANGED <<sys_modules, meta_path, handed, stale, emitted>>

\* Calls on the Registry's lookup interface.
RegistryCall ==
    \/ \E m \in ModuleNames, p \in Paths :
           \E rd \in FileReads(registry, p) : Prepare(m, p, rd)
    \/ \E p \in Paths : Get(p)
    \/ \E p \in Paths, l \in Lines : Find(p, l)
    \/ \E fn \in Objects :
           \E rd \in FileReads(registry, FnFile(fn)) : FindFunction(fn, rd)

HostStep ==
    \/ \E k \in Reloadable : LoadModule(k)
    \/ \E k \in Reloadable : UnloadModule(k)

RegisterCall ==
    \/ \E f \in Filters, reads \in [Paths -> Reads] :
           /\ \A p \in Paths : reads[p] \in FileReads(registry, p)
           /\ AutoRegister(f, reads)
    \/ Uninstall

SnifferStep ==
    \/ Install
    \/ \E name \in ImportNames : FindModule(name)
    \/ \E raises \in BOOLEAN, rd \in Reads : FindModuleResume(raises, rd)

\* The Registry used through its calls, observers subscribing.
Next ==
    \/ RegistryCall
    \/ HostStep
    \/ RegisterListener

Spec == Init /\ [][Next]_vars

\* The Registry used through its calls, auto_register among them.
NextCalls ==
    \/ RegistryCall
    \/ HostStep
    \/ RegisterCall

SpecCalls == Init /\ [][NextCalls]_vars

\* The host importing modules with the sniffer installed.
NextImport ==
    \/ \E p \in Paths : Get(p)
    \/ HostStep
    \/ RegisterCall
    \/ SnifferStep

SpecImport == Init /\ [][NextImport]_vars

\* CodeFiles emitting events, observers subscribed to registry.activity.
NextActivity ==
    \/ \E m \in ModuleNames, p \in Paths :
           \E rd \in FileReads(registry, p) : Prepare(m, p, rd)
    \/ \E p \in Paths : Get(p)
    \/ RegisterActivityListener
    \/ \E p \in Paths : CodeFileEmit(p)

SpecActivity == Init /\ [][NextActivity]_vars

(***************************************************************************)
(* Properties                                                              *)
(***************************************************************************)
Known(reg) == DOMAIN reg.precache \cup DOMAIN reg.cache

History == registry.precache_activity.history

Listeners == registry.precache_activity.listeners

\* C1, as stated in the design notes: in every reachable state each file
\* path is a key of at most one of precache and cache.
C1_AtMostOneTable ==
    \A p \in Paths :
        ~(p \in DOMAIN registry.precache /\ p \in DOMAIN registry.cache)

\* C1, as the code has it: get's promotion leaves the snapshot in place, so
\* every key of cache is also a key of precache, in every step; promotion is
\* one-way: no step removes a key from cache or from precache, and a stored
\* CodeFile is never replaced.
C1_CacheWithinPrecache ==
    [][/\ DOMAIN registry'.cache \subseteq DOMAIN registry'.precache
       /\ DOMAIN registry.precache \subseteq DOMAIN registry'.precache
       /\ \A p \in DOMAIN registry.cache :
              /\ p \in DOMAIN registry'.cache
              /\ registry'.cache[p] = registry.cache[p]]_vars

\* C1's case: get has just promoted a path, which is now in both tables.
C1_Witness ==
    /\ ret.op = "get"
    /\ ret.val # NoCodeFile
    /\ ret.args[1] \in DOMAIN registry.cache
    /\ ret.args[1] \in DOMAIN registry.precache

\* The path a lookup was about, and the CodeFile it returned.
IsLookup(r) ==
    \/ r.op \in {"get", "find"}
    \/ r.op = "find_function" /\ IsFunction(r.args[1])

LookupPath(r) ==
    IF r.op = "find_function" THEN FnFile(r.args[1]) ELSE r.args[1]

LookupCodeFile(r) == IF r.op = "get" THEN r.val ELSE r.val[1]

\* C2: once a lookup has returned a CodeFile for path p, every later get,
\* find or find_function on p returns that same CodeFile (the one cache
\* holds), whatever happened in between; one CodeFile is built per path.
C2_ReferentialStability ==
    /\ \A p \in Paths :
           handed[p] # 0 =>
               p \in DOMAIN registry.cache /\ registry.cache[p].id = handed[p]
    /\ (IsLookup(ret) /\ ~ret.raised) =>
           LookupCodeFile(ret).id = handed[LookupPath(ret)]
    /\ registry.nbuilt = Cardinality(DOMAIN registry.cache)

\* C2's case: a lookup returns the CodeFile of a path whose module has been
\* unloaded since the CodeFile was built.
C2_Witness ==
    /\ IsLookup(ret)
    /\ ~ret.raised
    /\ LookupCodeFile(ret) # NoCodeFile
    /\ ~module_loaded(LookupCodeFile(ret).module, sys_modules)

\* C3: once a path has a snapshot, no step changes it, and a later prepare
\* of that path (any module name, any file contents, promoted or not) changes
\* nothing in the Registry, emits nothing and does not raise.
C3_PrepareIdempotent ==
    [][\A p \in DOMAIN registry.precache :
           /\ p \in DOMAIN registry'.precache
           /\ registry'.precache[p] = registry.precache[p]
           /\ (ret'.op = "prepare" /\ ret'.args[2] = p) =>
                  registry' = registry /\ ~ret'.raised]_vars

\* C3's case: prepare was called with another module name on a path that
\* has been snapshotted and promoted.
C3_Witness ==
    /\ ret.op = "prepare"
    /\ ret.args[2] \in DOMAIN registry.precache
    /\ ret.args[2] \in DOMAIN registry.cache
    /\ registry.precache[ret.args[2]][1] # ret.args[1]

\* C4: a get of a path that has a snapshot and no CodeFile, made while the
\* snapshot's module is not in sys.modules, returns None and leaves the
\* Registry as it was (no CodeFile built, cache unchanged).
C4_StaleModule ==
    [][\A p \in Paths :
           (/\ ret'.op = "get"
            /\ ret'.args[1] = p
            /\ p \in DOMAIN registry.precache
            /\ p \notin DOMAIN registry.cache
            /\ ~module_loaded(registry.precache[p][1], sys_modules))
           => (ret'.val = NoCodeFile /\ registry' = registry)]_vars

\* C4's case: get returned None for a snapshotted path whose module is gone.
C4_Witness ==
    /\ ret.op = "get"
    /\ ret.val = NoCodeFile
    /\ ret.args[1] \in DOMAIN registry.precache
    /\ ~module_loaded(registry.precache[ret.args[1]][1], sys_modules)

\* C5, as stated: a lookup whose file is in neither table (a function of a
\* never prepared file included) returns an absent result and does not raise.
C5_LookupsTotal ==
    [][(IsLookup(ret') /\ LookupPath(ret') \notin Known(registry))
       => (~ret'.raised /\ LookupCodeFile(ret') = NoCodeFile)]_vars

\* C5, as the code has it: get and find on a path in neither table return
\* None and (None, None), raise nothing and change nothing; find_function on
\* a non-function returns (None, None); find_function on a function of a never
\* prepared file prepares it first: it raises when the read fails, and
\* otherwise the snapshot is stored and the answer is find's, a CodeFile
\* exactly when the function's module is loaded.
C5_LookupsTotalButPrepare ==
    [][/\ (/\ ret'.op \in {"get", "find"}
              /\ ret'.args[1] \notin Known(registry))
          => (/\ ~ret'.raised
              /\ LookupCodeFile(ret') = NoCodeFile
              /\ (ret'.op = "find" => ret'.val[2] = NoDefn)
              /\ registry' = registry)
       /\ (ret'.op = "find_function" /\ ~IsFunction(ret'.args[1]))
          => (~ret'.raised /\ ret'.val = <<NoCodeFile, NoDefn>>)
       /\ (/\ ret'.op = "find_function"
              /\ IsFunction(ret'.args[1])
           /\ FnFile(ret'.args[1]) \notin Known(registry))
          => \/ ret'.raised /\ registry' = registry
             \/ /\ ~ret'.raised
                /\ FnFile(ret'.args[1]) \in DOMAIN registry'.precache
                /\ (ret'.val[1] = NoCodeFile) <=>
                       ~module_loaded(FnModule(ret'.args[1]), sys_modules)]_vars

\* C5's case: find_function raised on a function of a never prepared file.
C5_Witness ==
    /\ ret.op = "find_function"
    /\ ret.raised
    /\ FnFile(ret.args[1]) \notin Known(registry)

\* C6: every find_module call returns None and raises nothing, whether the
\* flag was set or clear and however its find_spec call ended.
C6_Transparent ==
    ret.op = "find_module" => (~ret.raised /\ ret.val.result = NoOpinion)

\* C7: when self.report raises, find_module catches it: the call returns
\* None without raising and leaves the flag clear; the next resolution attempt
\* is therefore not declined, and an attempt that was not declined and found a
\* source module with a name and an origin reports it.
C7_ReportFailureContained ==
    [][/\ (ret'.op = "find_module" /\ ret'.val.report_raised)
          => (/\ ~ret'.raised
              /\ ret'.val.result = NoOpinion
              /\ ~sniffer'.working
              /\ stack' = <<>>)
       /\ (/\ ret.op = "find_module"
           /\ ret.val.report_raised
           /\ ret'.op = "find_module")
          => ~ret'.val.declined
       /\ (/\ ret'.op = "find_module"
           /\ ~ret'.val.declined
           /\ ~ret'.raised
           /\ SpecOf(ret'.args[1]) # NoSpec
           /\ SpecOf(ret'.args[1]).loader = "SourceFileLoader"
           /\ SpecOf(ret'.args[1]).origin # None)
          => ret'.val.reported =
                 << <<ret'.args[1], SpecOf(ret'.args[1]).origin>> >>]_vars

\* C7's case: a find_module call whose report raised has returned.
C7_Witness ==
    /\ ret.op = "find_module"
    /\ ret.val.report_raised
    /\ ~ret.raised

\* C8: the host's import of a source module whose file passes the filter
\* of the installed sniffer makes exactly one prepare call, for that module
\* (stated of the imports whose find_module call returns).
C8_ExactlyOnePrepare ==
    (/\ ret.op = "find_module"
     /\ ~ret.raised
     /\ stack = <<>>
     /\ SpecOf(ret.args[1]) # NoSpec
     /\ SpecOf(ret.args[1]).loader = "SourceFileLoader"
     /\ SpecOf(ret.args[1]).origin \in sniffer.filter)
    => ret.val.prepared = << <<ret.args[1], SpecOf(ret.args[1]).origin>> >>

\* The loaded modules auto_register(filter) is to prepare.
Qualifying(mods, filter) ==
    {k \in ModuleKeys :
        /\ \E i \in DOMAIN mods : mods[i] = k
        /\ ModuleName(k) # None
        /\ ModuleFile(k) # None
        /\ ModuleFile(k) \in filter}

\* C9: an auto_register(filter) call that returns has called prepare once
\* for each loaded module with a name and a file that passes the filter, and
\* for no other; each such file has a snapshot afterwards, and every snapshot
\* the call added is of such a file.
C9_AutoRegisterScan ==
    [][(ret'.op = "auto_register" /\ ~ret'.raised) =>
           LET Q == Qualifying(sys_modules, ret'.args[1])
               calls == ret'.val.prepared
           IN  /\ {calls[i] : i \in DOMAIN calls} =
                      {<<ModuleName(k), ModuleFile(k)>> : k \in Q}
               /\ Len(calls) = Cardinality(Q)
               /\ \A k \in Q : ModuleFile(k) \in DOMAIN registry'.precache
               /\ (DOMAIN registry'.precache \ DOMAIN registry.precache)
                      \subseteq {ModuleFile(k) : k \in Q}]_vars

\* C9's case: with A and B loaded, auto_register with a filter that accepts
\* a.py only returned after preparing A only.
C9_Witness ==
    /\ ret.op = "auto_register"
    /\ ~ret.raised
    /\ ret.args[1] = {"a.py"}
    /\ module_loaded("A", sys_modules)
    /\ module_loaded("B", sys_modules)
    /\ ret.val.prepared = << <<"A", "a.py">> >>
    /\ "a.py" \in DOMAIN registry.precache
    /\ "b.py" \notin DOMAIN registry.precache

\* C10: every listener of precache_activity has received exactly the
\* channel's history, in order: the events emitted before it registered
\* (replayed at registration) followed by those emitted since; and the
\* history holds one event (module_name, filename) per snapshot.
C10_ReplayOnSubscribe ==
    /\ \A i \in DOMAIN Listeners : Listeners[i] = History
    /\ \A p \in DOMAIN registry.precache :
           Cardinality({i \in DOMAIN History :
                           History[i] = <<registry.precache[p][1], p>>}) = 1
    /\ Len(History) = Cardinality(DOMAIN registry.precache)

\* C10's case: a listener has just registered after two snapshots were
\* taken, and holds both events.
C10_Witness ==
    /\ ret.op = "register"
    /\ Len(History) = 2
    /\ Listeners # <<>>
    /\ Len(Listeners[Len(Listeners)]) = 2

\* C11: find(p, L) returns (None, None) exactly when get(p) is None, that is
\* when p has no CodeFile and either no snapshot or a snapshot whose module
\* is not loaded (every never seen p is such); otherwise it returns the
\* CodeFile that cache holds for p, the one get(p) returns, together with
\* None when L starts no definition of its source and with the definition at
\* L when it does.
C11_FindResult ==
    [][ret'.op = "find" =>
           LET p == ret'.args[1]
               L == ret'.args[2]
               cf == ret'.val[1]
               defn == ret'.val[2]
               absent ==
                   /\ p \notin DOMAIN registry.cache
                   /\ \/ p \notin DOMAIN registry.precache
                      \/ ~module_loaded(registry.precache[p][1], sys_modules)
           IN  /\ ~ret'.raised
               /\ absent => (cf = NoCodeFile /\ defn = NoDefn)
               /\ ~absent =>
                      /\ cf # NoCodeFile
                      /\ cf = registry'.cache[p]
                      /\ (p \in DOMAIN registry.cache => cf = registry.cache[p])
                      /\ L \notin DefLines(cf.source) => defn = NoDefn
                      /\ L \in DefLines(cf.source) =>
                             /\ defn # NoDefn
                             /\ defn.lineno = L
                             /\ defn.filename = p]_vars

\* C11's case: find returned the CodeFile of a known path with no definition
\* for the line.
C11_Witness ==
    /\ ret.op = "find"
    /\ ret.val[1] # NoCodeFile
    /\ ret.val[2] = NoDefn

\* C12: find_function(x) for an x that is no function object returns
\* (None, None), raises nothing and changes nothing: precache, cache,
\* precache_activity and activity are the same after the call.
C12_NonFunctionNoEffect ==
    [][(ret'.op = "find_function" /\ ret'.args[1] = "notfn") =>
           /\ ret'.val = <<NoCodeFile, NoDefn>>
           /\ ~ret'.raised
           /\ registry'.precache = registry.precache
           /\ registry'.cache = registry.cache
           /\ registry'.precache_activity = registry.precache_activity
           /\ registry'.activity = registry.activity]_vars

\* C12's case: find_function was called with an object that is no function
\* on a Registry that holds a snapshot, a CodeFile and a listener.
C12_Witness ==
    /\ ret.op = "find_function"
    /\ ret.args[1] = "notfn"
    /\ registry.precache # <<>>
    /\ registry.cache # <<>>
    /\ Listeners # <<>>

\* C13: when the read made by prepare(m, p) for a never seen p fails, the
\* error reaches the caller and the Registry is as before: no snapshot for
\* p, no event, nothing that marks p as seen.  p therefore stays unseen, and
\* a prepare(m, p) whose read succeeds stores the snapshot of what was read
\* and emits (m, p) to the history and to every listener.
C13_UnreadableSource ==
    [][ret'.op = "prepare" =>
           LET m == ret'.args[1]
               p == ret'.args[2]
               rd == ret'.args[3]
           IN  /\ (p \notin Known(registry) /\ rd = 0) =>
                      /\ ret'.raised
                      /\ registry' = registry
                      /\ p \notin Known(registry')
               /\ (p \notin Known(registry) /\ rd # 0) =>
                      /\ ~ret'.raised
                      /\ p \in DOMAIN registry'.precache
                      /\ registry'.precache[p] = <<m, FileText(rd), FileMtime(rd)>>
                      /\ History' = Append(History, <<m, p>>)
                      /\ Len(Listeners') = Len(Listeners)
                      /\ \A i \in DOMAIN Listeners :
                             Listeners'[i] = Append(Listeners[i], <<m, p>>)]_vars

\* C13's case: a prepare whose read failed has just raised, with a listener
\* registered, and its path is still unseen.
C13_Witness ==
    /\ ret.op = "prepare"
    /\ ret.raised
    /\ ret.args[3] = 0
    /\ ret.args[2] \notin Known(registry)
    /\ Listeners # <<>>

\* C14: the sniffer's working flag is set exactly while one of its
\* find_module calls is in progress: every call that sets it clears it
\* before it returns or raises, so the flag is clear whenever no call is in
\* progress.
C14_FlagProtocol ==
    sniffer.working <=> stack # <<>>

\* The names a returning find_module call has seen resolved: its own, and
\* the one of the attempt made inside its find_spec call just before.
ResolvedBy(r, before, frames) ==
    {r.args[1]} \cup
    (IF before.op = "find_module" /\ frames # <<>>
     THEN {before.args[1]} ELSE {})

\* C15: when the host's import returns from the installed sniffer, every
\* module resolved on the way, by that find_module call or by one made
\* inside its find_spec call, that has a SourceFileLoader, a name and an
\* origin passing the filter has a snapshot, unless reading it failed.
C15_EveryImportSnapshotted ==
    [][(/\ ret'.op = "find_module"
        /\ stack' = <<>>
        /\ ~ret'.raised
        /\ ~ret'.val.report_raised) =>
           \A n \in ResolvedBy(ret', ret, stack) :
               (/\ reportable(SpecOf(n))
                /\ SpecOf(n).origin \in sniffer.filter)
               => SpecOf(n).origin \in DOMAIN registry'.precache]_vars

\* C16: a find_module call reports only a module that find_spec found, with
\* a SourceFileLoader, a name and an origin, and reports exactly that name
\* and origin; for a module that is not found, has another loader or has no
\* origin it reports nothing, makes no prepare call and leaves the Registry
\* as it was.
C16_ReportsOnlySource ==
    [][ret'.op = "find_module" =>
           LET mspec == SpecOf(ret'.args[1])
           IN  /\ ret'.val.reported # <<>> =>
                      /\ mspec # NoSpec
                      /\ mspec.loader = "SourceFileLoader"
                      /\ mspec.name # None
                      /\ mspec.origin # None
                      /\ ret'.val.reported = << <<mspec.name, mspec.origin>> >>
               /\ (\/ mspec = NoSpec
                   \/ mspec.loader # "SourceFileLoader"
                   \/ mspec.name = None
                   \/ mspec.origin = None) =>
                      /\ ret'.val.reported = <<>>
                      /\ ret'.val.prepared = <<>>
                      /\ registry' = registry]_vars

\* C16's case: a find_module call that was not declined has resolved the
\* built-in module and returned, on a Registry that holds a snapshot.
C16_Witness ==
    /\ ret.op = "find_module"
    /\ ret.args[1] = "D"
    /\ ~ret.val.declined
    /\ ~ret.raised
    /\ registry.precache # <<>>

\* C17: find_function(fn) for a function whose file was never seen, whatever
\* filter auto_register was given, first prepares (fn's module, fn's file)
\* and then answers as find(fn's file, fn's first line): a failed read goes
\* to the caller and leaves the Registry as it was; after a successful read
\* the file has the snapshot of what was read under fn's module, and if that
\* module is loaded the call returns the CodeFile now cached for the file,
\* built from that snapshot, with the definition at fn's first line if there
\* is one, and (None, None) if the module is not loaded.
C17_FindFunctionPrepares ==
    [][(/\ ret'.op = "find_function"
        /\ ret'.args[1] # "notfn"
        /\ FnFile(ret'.args[1]) \notin Known(registry)) =>
           LET fn == ret'.args[1]
               rd == ret'.args[2]
               m == FnModule(fn)
               p == FnFile(fn)
               cf == ret'.val[1]
               defn == ret'.val[2]
           IN  /\ rd = 0 => (ret'.raised /\ registry' = registry)
               /\ rd # 0 =>
                      /\ ~ret'.raised
                      /\ p \in DOMAIN registry'.precache
                      /\ registry'.precache[p] = <<m, FileText(rd), FileMtime(rd)>>
                      /\ History' = Append(History, <<m, p>>)
                      /\ module_loaded(m, sys_modules) =>
                             /\ cf # NoCodeFile
                             /\ p \in DOMAIN registry'.cache
                             /\ cf = registry'.cache[p]
                             /\ cf.source = FileText(rd)
                             /\ cf.module = m
                             /\ defn = IF FnLine(fn) \in DefLines(cf.source)
                                       THEN [lineno |-> FnLine(fn),
                                             filename |-> p,
                                             source |-> cf.source]
                                       ELSE NoDefn
                      /\ ~module_loaded(m, sys_modules) =>
                             /\ ret'.val = <<NoCodeFile, NoDefn>>
                             /\ p \notin DOMAIN registry'.cache]_vars

\* C17's case: with a sniffer whose filter does not pass b.py, find_function
\* of a function of b.py has read the file and returned its CodeFile.
C17_Witness ==
    /\ ret.op = "find_function"
    /\ ret.args[1] = "fB"
    /\ ret.args[2] # 0
    /\ sniffer.made
    /\ "b.py" \notin sniffer.filter
    /\ ret.val[1] # NoCodeFile
    /\ "b.py" \in DOMAIN registry.precache

\* C19: install (auto_register's included) puts the sniffer at the front of
\* sys.meta_path and leaves the other finders behind it in their order;
\* uninstall takes the sniffer out and leaves the list as it was before the
\* install, so install followed by uninstall changes nothing; find_module is
\* called, and so a module reported, only while the sniffer is in the list.
C19_InstallUninstall ==
    [][/\ (\/ ret'.op = "install"
           \/ ret'.op = "auto_register" /\ ~ret'.raised) =>
              meta_path' = <<"sniffer">> \o meta_path
       /\ (ret'.op = "uninstall" /\ ~ret'.raised) =>
              /\ meta_path = <<"sniffer">> \o meta_path'
              /\ ~Installed(meta_path')
       /\ (ret'.op = "uninstall" /\ ret'.raised) =>
              (~Installed(meta_path) /\ meta_path' = meta_path)
       /\ SelectSeq(meta_path', LAMBDA f : f # "sniffer") = HostFinders
       /\ ret'.op \in {"find_spec", "find_module"} => Installed(meta_path)
       /\ ~Installed(meta_path) =>
              \/ registry' = registry
              \/ ret'.op \in {"get", "auto_register"}]_vars

\* C19's case: the sniffer, installed before, has just been uninstalled and
\* the list is the interpreter's again.
C19_Witness ==
    /\ ret.op = "uninstall"
    /\ ~ret.raised
    /\ sniffer.made
    /\ meta_path = HostFinders

\* C20: a get(p) whose snapshot names a module that is loaded returns a
\* CodeFile, also when the lookup of p before it gave None because that
\* module was not loaded then: in that case this get builds the CodeFile and
\* stores it in cache.  The CodeFile's source is the text the snapshot
\* captured, and it is bound to the module now in sys.modules under the
\* snapshot's name.
C20_StaleNotSticky ==
    [][(/\ ret'.op = "get"
        /\ ret'.args[1] \in DOMAIN registry.precache
        /\ module_loaded(registry.precache[ret'.args[1]][1], sys_modules)) =>
           LET p == ret'.args[1]
               was_stale == ret'.args[2]
               cf == ret'.val
           IN  /\ cf # NoCodeFile
               /\ cf.source = registry.precache[p][2]
               /\ cf.module = registry.precache[p][1]
               /\ p \in DOMAIN registry'.cache
               /\ registry'.cache[p] = cf
               /\ registry'.precache[p] = registry.precache[p]
               /\ was_stale =>
                      /\ p \in stale
                      /\ p \notin DOMAIN registry.cache
                      /\ cf.id = registry.nbuilt + 1
                      /\ p \notin stale']_vars

\* C20's case: get has returned a CodeFile for a path whose lookup before
\* gave None because the snapshot's module was not loaded.
C20_Witness ==
    /\ ret.op = "get"
    /\ ret.args[2]
    /\ ret.val # NoCodeFile
    /\ module_loaded(ret.val.module, sys_modules)

ActivityListeners == registry.activity.listeners

\* C18: every event a cached CodeFile emits on its activity channel reaches
\* each listener of registry.activity exactly once, as the last event it
\* has received, however many get calls were made on the path; no other
\* step delivers anything, so each listener holds the events emitted since
\* it registered, of all CodeFiles, in the order they were emitted.
C18_UnifiedStream ==
    [][/\ ret'.op = "emit" =>
              /\ ret'.args[1] \in DOMAIN registry.cache
              /\ emitted' = Append(emitted, ret'.val)
              /\ Len(ActivityListeners') = Len(ActivityListeners)
              /\ \A i \in DOMAIN ActivityListeners :
                     ActivityListeners'[i] =
                         Append(ActivityListeners[i], ret'.val)
       /\ ret'.op # "emit" =>
              /\ emitted' = emitted
              /\ \A i \in DOMAIN ActivityListeners :
                     ActivityListeners'[i] = ActivityListeners[i]
       /\ \A i \in DOMAIN ActivityListeners' :
              LET got == ActivityListeners'[i]
                  skipped == Len(emitted') - Len(got)
              IN  /\ skipped >= 0
                  /\ \A j \in DOMAIN got : got[j] = emitted'[skipped + j]]_vars

\* C18's case: a listener of registry.activity has received events of the
\* CodeFiles of two files.
C18_Witness ==
    \E i \in DOMAIN ActivityListeners :
        /\ Len(ActivityListeners[i]) >= 2
        /\ ActivityListeners[i][1][1] # ActivityListeners[i][2][1]

=============================================================================
